---- MODULE Spec2Model ----
(***************************************************************************)
(* A model of the class-e-commerce-backend request handlers (src/main.py)  *)
(* over the tables declared in src/models.py.                              *)
(*                                                                         *)
(* Each handler is one action.  The tables are sets of rows; an            *)
(* Optional[...] value is a set with at most one element ({} is None).     *)
(* A price travels as an integer number of thousandths on the wire (the    *)
(* payload's float) and as an integer number of hundredths in the          *)
(* Numeric(10, 2) column.                                                  *)
(*                                                                         *)
(* req, resp and pre record the last request, its response and the tables  *)
(* as they were when the request arrived; created, deleted and coerced     *)
(* are history variables.                                                  *)
(***************************************************************************)
EXTENDS Integers, Sequences, FiniteSets, TLC

VARIABLES categories, nextCategoryId, products, nextProductId,
          users, nextUserId, sess,
          req, resp, pre, created, deleted, coerced

vars == <<categories, nextCategoryId, products, nextProductId,
          users, nextUserId, sess,
          req, resp, pre, created, deleted, coerced>>

(* ------------------------------ bounds --------------------------------- *)

\* The number of product rows ever inserted.
MaxProducts == 2
\* The number of user rows ever inserted.
MaxUsers == 2
\* The number of create_category requests each session of the race issues.
MaxRequests == 2

(* ------------------------------ inputs --------------------------------- *)

None == {}
Some(x) == {x}

\* Category names that differ only in case, so that an exact match and a
\* case-insensitive one disagree.
CategoryNames == {"Art", "art"}

\* The code points of a name, for the store's ORDER BY name.
CodePoints(name) ==
    CASE name = "Art" -> <<65, 114, 116>>
      [] name = "art" -> <<97, 114, 116>>
      [] name = "Bag" -> <<66, 97, 103>>
      [] OTHER -> <<>>

\* Category ids a client may send: 1 and 2 are ids the store may have
\* issued, 0 is one it never issues.
CategoryIdInputs == {0, 1, 2}

\* The product payloads: (name, price, in_stock) from three combinations,
\* with each category_id.  The prices are 10.99, 10.999 and -1.00 in
\* thousandths: two fractional digits, three, and a negative price.
ProductFields ==
    { <<"pen", 10990, TRUE>>, <<"ink", 10999, FALSE>>,
      <<"cap", -1000, TRUE>> }

ProductPayloads ==
    { [name |-> f[1], price |-> f[2], in_stock |-> f[3], category_id |-> c] :
        f \in ProductFields,
        c \in {None} \cup { Some(i) : i \in CategoryIdInputs } }

ProductIdInputs == 1 .. (MaxProducts + 1)

Emails == {"a@b.com", "A@b.com", "c@d.com"}
Passwords == {"x", "wrong"}
RoleInputs == {"user", "admin", "superadmin"}

UserPayloads ==
    { [name |-> "Ann", email |-> e, password |-> p, role |-> r] :
        e \in Emails, p \in Passwords, r \in RoleInputs }

LoginInputs == [email : Emails, password : Passwords]

\* The X-Admin-Email header: absent, empty, or an email.
HeaderInputs == {None, Some("")} \cup { Some(e) : e \in Emails }

UserIdInputs == 1 .. (MaxUsers + 1)

\* The sessions of the create_category race, one per request in flight.
Sessions == {1, 2}

(* --------------------------- the store --------------------------------- *)

\* models.Category.id == category_id ... .first()
category_by_id(category_id) ==
    { c \in categories : c.id = category_id }

\* The name with its case folded.
Fold(name) == IF name = "Art" THEN "art" ELSE name

\* A faulty pre-check: a match that ignores case.
category_by_name_folded(name) ==
    { c \in categories : Fold(c.name) = Fold(name) }

\* models.Category.name == payload.name ... .first(): an exact match.
category_by_name(name) ==
    { c \in categories : c.name = name }

\* models.Product.id == product_id ... .first()
product_by_id(product_id) ==
    { p \in products : p.id = product_id }

\* The unique index on categories.name.
unique_name_ok(name) ==
    \A c \in categories : c.name # name

\* The foreign key products.category_id -> categories.id (NULL passes).
foreign_key_ok(category_id) ==
    \A i \in category_id : \E c \in categories : c.id = i

\* A float written to the Numeric(10, 2) column: rounded to hundredths,
\* half away from zero.
to_numeric(price) ==
    IF price >= 0 THEN (price + 5) \div 10 ELSE -((5 - price) \div 10)

\* The Numeric(10, 2) column read into ProductOut.price: float.
to_float(cents) == cents * 10

\* ProductOut of a row.
ProductOut(p) ==
    [id |-> p.id, name |-> p.name, price |-> to_float(p.price),
     in_stock |-> p.in_stock, category_id |-> p.category_id]

\* CategoryOut of a row.
CategoryOut(c) == [id |-> c.id, name |-> c.name]

\* a < b in code point order.
RECURSIVE SeqLess(_, _)
SeqLess(a, b) ==
    IF a = <<>> THEN b # <<>>
    ELSE IF b = <<>> THEN FALSE
    ELSE IF Head(a) # Head(b) THEN Head(a) < Head(b)
    ELSE SeqLess(Tail(a), Tail(b))

\* .order_by(models.Category.name.asc()).all()
RECURSIVE order_by_name_asc(_)
order_by_name_asc(rows) ==
    IF rows = {} THEN <<>>
    ELSE LET m == CHOOSE x \in rows :
                    \A y \in rows \ {x} :
                        SeqLess(CodePoints(x.name), CodePoints(y.name))
         IN  <<m>> \o order_by_name_asc(rows \ {m})

\* A faulty ordering: by id ascending.
RECURSIVE order_by_id_asc(_)
order_by_id_asc(rows) ==
    IF rows = {} THEN <<>>
    ELSE LET m == CHOOSE x \in rows : \A y \in rows : x.id <= y.id
         IN  <<m>> \o order_by_id_asc(rows \ {m})

\* .order_by(models.Product.id.desc()).all()
RECURSIVE order_by_id_desc(_)
order_by_id_desc(rows) ==
    IF rows = {} THEN <<>>
    ELSE LET m == CHOOSE x \in rows : \A y \in rows : y.id <= x.id
         IN  <<m>> \o order_by_id_desc(rows \ {m})

\* The rows a query for one category's products selects.
products_in_category(category_id) ==
    { p \in products : p.category_id = Some(category_id) }

\* response_model=List[CategoryOut]
CategoryOutList(rows) == [i \in 1 .. Len(rows) |-> CategoryOut(rows[i])]

\* response_model=List[ProductOut]
ProductOutList(rows) == [i \in 1 .. Len(rows) |-> ProductOut(rows[i])]

(* --------------------------- responses --------------------------------- *)

Ok(status, body) == [status |-> status, detail |-> "", body |-> body]
HTTPException(status, detail) ==
    [status |-> status, detail |-> detail, body |-> <<>>]

\* A session of the race between two requests: n counts its requests.
IdleSession(n) ==
    [pc |-> "idle", name |-> "", resp |-> Ok(200, <<>>), lost |-> FALSE,
     n |-> n]

Snapshot ==
    [categories |-> categories, products |-> products, users |-> users,
     deleted |-> deleted, created |-> created]

Init ==
    /\ categories = {}
    /\ nextCategoryId = 1
    /\ products = {}
    /\ nextProductId = 1
    /\ users = {}
    /\ nextUserId = 1
    /\ sess = [s \in Sessions |-> IdleSession(0)]
    /\ req = [op |-> "none"]
    /\ resp = Ok(200, <<>>)
    /\ pre = [categories |-> {}, products |-> {}, users |-> {},
              deleted |-> {}, created |-> {}]
    /\ created = {}
    /\ deleted = {}
    /\ coerced = {}

UsersUnchanged == UNCHANGED <<users, nextUserId, coerced>>
CategoriesUnchanged == UNCHANGED <<categories, nextCategoryId, created>>
ProductsUnchanged == UNCHANGED <<products, nextProductId, deleted>>

(* ------------------------ category handlers ---------------------------- *)

\* POST /categories
create_category(name) ==
    /\ req' = [op |-> "create_category", name |-> name]
    /\ pre' = Snapshot
    /\ IF category_by_name(name) # {}
       THEN /\ resp' = HTTPException(400, "Category name already exists")
            /\ CategoriesUnchanged
       ELSE IF ~unique_name_ok(name)
       THEN \* the INSERT takes a value of the id sequence and is refused
            /\ resp' = HTTPException(500, "Internal Server Error")
            /\ nextCategoryId' = nextCategoryId + 1
            /\ UNCHANGED <<categories, created>>
       ELSE LET cat == [id |-> nextCategoryId, name |-> name]
            IN  /\ categories' = categories \cup {cat}
                /\ nextCategoryId' = nextCategoryId + 1
                /\ resp' = Ok(201, CategoryOut(cat))
                /\ created' = created \cup {CategoryOut(cat)}
    /\ ProductsUnchanged /\ UsersUnchanged /\ UNCHANGED sess

\* GET /categories
list_categories ==
    /\ req' = [op |-> "list_categories"]
    /\ pre' = Snapshot
    /\ resp' = Ok(200, CategoryOutList(order_by_name_asc(categories)))
    /\ CategoriesUnchanged /\ ProductsUnchanged /\ UsersUnchanged
    /\ UNCHANGED sess

\* GET /categories/{category_id}/products
list_products_by_category(category_id) ==
    /\ req' = [op |-> "list_products_by_category",
               category_id |-> category_id]
    /\ pre' = Snapshot
    /\ resp' = IF category_by_id(category_id) = {}
               THEN HTTPException(404, "Category not found")
               ELSE Ok(200, ProductOutList(
                        order_by_id_desc(products_in_category(category_id))))
    /\ CategoriesUnchanged /\ ProductsUnchanged /\ UsersUnchanged
    /\ UNCHANGED sess

(* ------------------------- product handlers ---------------------------- *)

\* A faulty category check: none at all.
category_missing_skipped(category_id) == FALSE

\* The category check of create_product and update_product.
category_missing(category_id) ==
    \E i \in category_id : category_by_id(i) = {}

\* POST /products
create_product(payload) ==
    /\ req' = [op |-> "create_product", payload |-> payload]
    /\ pre' = Snapshot
    /\ IF category_missing(payload.category_id)
       THEN /\ resp' = HTTPException(404, "Category not found")
            /\ ProductsUnchanged
       ELSE /\ nextProductId <= MaxProducts
            /\ IF ~foreign_key_ok(payload.category_id)
               THEN /\ resp' = HTTPException(500, "Internal Server Error")
                    /\ nextProductId' = nextProductId + 1
                    /\ UNCHANGED <<products, deleted>>
               ELSE LET item == [id |-> nextProductId,
                                 name |-> payload.name,
                                 price |-> to_numeric(payload.price),
                                 in_stock |-> payload.in_stock,
                                 category_id |-> payload.category_id]
                    IN  /\ products' = products \cup {item}
                        /\ nextProductId' = nextProductId + 1
                        /\ resp' = Ok(201, ProductOut(item))
                        /\ UNCHANGED deleted
    /\ CategoriesUnchanged /\ UsersUnchanged /\ UNCHANGED sess

\* GET /products
list_products ==
    /\ req' = [op |-> "list_products"]
    /\ pre' = Snapshot
    /\ resp' = Ok(200, ProductOutList(order_by_id_desc(products)))
    /\ CategoriesUnchanged /\ ProductsUnchanged /\ UsersUnchanged
    /\ UNCHANGED sess

\* GET /products/{product_id}
read_product(product_id) ==
    /\ req' = [op |-> "read_product", product_id |-> product_id]
    /\ pre' = Snapshot
    /\ resp' = IF product_by_id(product_id) = {}
               THEN HTTPException(404, "Product not found")
               ELSE Ok(200, ProductOut(
                        CHOOSE p \in product_by_id(product_id) : TRUE))
    /\ CategoriesUnchanged /\ ProductsUnchanged /\ UsersUnchanged
    /\ UNCHANGED sess

\* The row of update_product after its four assignments and the commit.
updated_row(item, payload) ==
    [id |-> item.id,
     name |-> payload.name,
     price |-> to_numeric(payload.price),
     in_stock |-> payload.in_stock,
     category_id |-> payload.category_id]

\* PUT /products/{product_id}
update_product(product_id, payload) ==
    /\ req' = [op |-> "update_product", product_id |-> product_id,
               payload |-> payload]
    /\ pre' = Snapshot
    /\ IF product_by_id(product_id) = {}
       THEN /\ resp' = HTTPException(404, "Product not found")
            /\ UNCHANGED products
       ELSE IF category_missing(payload.category_id)
       THEN /\ resp' = HTTPException(404, "Category not found")
            /\ UNCHANGED products
       ELSE IF ~foreign_key_ok(payload.category_id)
       THEN /\ resp' = HTTPException(500, "Internal Server Error")
            /\ UNCHANGED products
       ELSE LET item == CHOOSE p \in product_by_id(product_id) : TRUE
                row  == updated_row(item, payload)
            IN  /\ products' = (products \ {item}) \cup {row}
                /\ resp' = Ok(200, ProductOut(row))
    /\ UNCHANGED <<nextProductId, deleted>>
    /\ CategoriesUnchanged /\ UsersUnchanged /\ UNCHANGED sess

\* A faulty delete: the row stays.
delete_row_kept(item) == products

\* The products table after db.delete(item) and the commit.
delete_row(item) == products \ {item}

\* DELETE /products/{product_id}
delete_product(product_id) ==
    /\ req' = [op |-> "delete_product", product_id |-> product_id]
    /\ pre' = Snapshot
    /\ IF product_by_id(product_id) = {}
       THEN /\ resp' = HTTPException(404, "Product not found")
            /\ UNCHANGED <<products, deleted>>
       ELSE LET item == CHOOSE p \in product_by_id(product_id) : TRUE
            IN  /\ products' = delete_row(item)
                /\ deleted' = deleted \cup {product_id}
                /\ resp' = Ok(204, <<>>)
    /\ UNCHANGED nextProductId
    /\ CategoriesUnchanged /\ UsersUnchanged /\ UNCHANGED sess

(* --------------------------- the catalog ------------------------------- *)

Next ==
    \/ \E name \in CategoryNames : create_category(name)
    \/ list_categories
    \/ \E c \in CategoryIdInputs : list_products_by_category(c)
    \/ \E payload \in ProductPayloads : create_product(payload)
    \/ list_products
    \/ \E i \in ProductIdInputs : read_product(i)
    \/ \E i \in ProductIdInputs, payload \in ProductPayloads :
          update_product(i, payload)
    \/ \E i \in ProductIdInputs : delete_product(i)

Spec == Init /\ [][Next]_vars

(* --------------------------- user handlers ----------------------------- *)

PEPPER == "class-demo-not-secure"

\* sha256 of raw + PEPPER, taken to be free of collisions: the digest is
\* the tagged input.
hash_password(raw) == <<"sha256", raw, PEPPER>>

\* A faulty verification: any password passes.
verify_password_any(raw, hashed) == TRUE

verify_password(raw, hashed) == hash_password(raw) = hashed

\* models.User.email == email ... .first()
user_by_email(table, email) ==
    { u \in table : u.email = email }

\* models.User.id == user_id ... .first()
user_by_id(user_id) ==
    { u \in users : u.id = user_id }

\* The unique index on users.email.
unique_email_ok(email) ==
    \A u \in users : u.email # email

\* UserOut of a row: no password_hash.
UserOut(u) == [id |-> u.id, name |-> u.name, email |-> u.email,
               role |-> u.role]

\* response_model=List[UserOut]
UserOutList(rows) == [i \in 1 .. Len(rows) |-> UserOut(rows[i])]

\* A faulty coercion: the supplied role is stored as it is.
coerce_role_kept(role) == role

\* payload.role if payload.role in ("user", "admin") else "user"
coerce_role(role) ==
    IF role \in {"user", "admin"} THEN role ELSE "user"

\* POST /users
create_user(payload) ==
    /\ req' = [op |-> "create_user", payload |-> payload]
    /\ pre' = Snapshot
    /\ IF user_by_email(users, payload.email) # {}
       THEN /\ resp' = HTTPException(400, "Email already registered")
            /\ UsersUnchanged
       ELSE /\ nextUserId <= MaxUsers
            /\ IF ~unique_email_ok(payload.email)
               THEN /\ resp' = HTTPException(500, "Internal Server Error")
                    /\ nextUserId' = nextUserId + 1
                    /\ UNCHANGED <<users, coerced>>
               ELSE LET user == [id |-> nextUserId,
                                 name |-> payload.name,
                                 email |-> payload.email,
                                 password_hash |->
                                     hash_password(payload.password),
                                 role |-> coerce_role(payload.role)]
                    IN  /\ users' = users \cup {user}
                        /\ nextUserId' = nextUserId + 1
                        /\ resp' = Ok(201, UserOut(user))
                        /\ coerced' =
                              IF payload.role \in {"user", "admin"}
                              THEN coerced
                              ELSE coerced \cup {payload.email}
    /\ CategoriesUnchanged /\ ProductsUnchanged /\ UNCHANGED sess

\* GET /users
list_users ==
    /\ req' = [op |-> "list_users"]
    /\ pre' = Snapshot
    /\ resp' = Ok(200, UserOutList(order_by_id_desc(users)))
    /\ CategoriesUnchanged /\ ProductsUnchanged /\ UsersUnchanged
    /\ UNCHANGED sess

\* GET /users/{user_id}
get_user(user_id) ==
    /\ req' = [op |-> "get_user", user_id |-> user_id]
    /\ pre' = Snapshot
    /\ resp' = IF user_by_id(user_id) = {}
               THEN HTTPException(404, "User not found")
               ELSE Ok(200, UserOut(CHOOSE u \in user_by_id(user_id) : TRUE))
    /\ CategoriesUnchanged /\ ProductsUnchanged /\ UsersUnchanged
    /\ UNCHANGED sess

\* The response of login against a users table.
login_response(table, data) ==
    LET found == user_by_email(table, data.email)
    IN  IF \/ found = {}
           \/ \E u \in found : ~verify_password(data.password,
                                                 u.password_hash)
        THEN HTTPException(401, "Invalid credentials")
        ELSE Ok(200, [message |-> "login ok",
                      role |-> (CHOOSE u \in found : TRUE).role])

\* POST /login
login(data) ==
    /\ req' = [op |-> "login", data |-> data]
    /\ pre' = Snapshot
    /\ resp' = login_response(users, data)
    /\ CategoriesUnchanged /\ ProductsUnchanged /\ UsersUnchanged
    /\ UNCHANGED sess

\* A faulty admin query: the email alone.
admin_query_any_role(email) ==
    { u \in users : u.email = email }

\* The query of admin_required: the email and role == "admin".
admin_query(email) ==
    { u \in users : u.email = email /\ u.role = "admin" }

\* not x_admin_email: the header is absent or empty.
header_missing(x_admin_email) ==
    x_admin_email = None \/ x_admin_email = Some("")

\* The dependency admin_required: the failure it raises, or Ok with the
\* admin's row.
admin_required(x_admin_email) ==
    IF header_missing(x_admin_email)
    THEN HTTPException(401, "Missing X-Admin-Email header")
    ELSE LET admin == UNION { admin_query(e) : e \in x_admin_email }
         IN  IF admin = {}
             THEN HTTPException(403, "Admin access required")
             ELSE Ok(200, CHOOSE u \in admin : TRUE)

\* GET /admin/users
admin_list_users(x_admin_email) ==
    /\ req' = [op |-> "admin_list_users", x_admin_email |-> x_admin_email]
    /\ pre' = Snapshot
    /\ resp' = IF admin_required(x_admin_email).status # 200
               THEN admin_required(x_admin_email)
               ELSE Ok(200, UserOutList(order_by_id_desc(users)))
    /\ CategoriesUnchanged /\ ProductsUnchanged /\ UsersUnchanged
    /\ UNCHANGED sess

NextUsers ==
    \/ \E payload \in UserPayloads : create_user(payload)
    \/ list_users
    \/ \E i \in UserIdInputs : get_user(i)
    \/ \E data \in LoginInputs : login(data)
    \/ \E h \in HeaderInputs : admin_list_users(h)

SpecUsers == Init /\ [][NextUsers]_vars

(* ------------------- two create_category requests ---------------------- *)
(* Each request runs in a session of its own (get_db): the pre-check      *)
(* reads what is committed, and db.commit() flushes the INSERT and        *)
(* commits it in one step of the store.                                   *)

RaceUnchanged ==
    /\ ProductsUnchanged /\ UsersUnchanged
    /\ UNCHANGED <<req, resp, pre>>

\* create_category up to its pre-check.
create_category_check(s, name) ==
    /\ sess[s].pc = "idle"
    /\ sess[s].n < MaxRequests
    /\ sess' = [sess EXCEPT ![s] =
          IF category_by_name(name) # {}
          THEN [pc |-> "done", name |-> name, lost |-> FALSE,
                resp |-> HTTPException(400, "Category name already exists"),
                n |-> @.n + 1]
          ELSE [pc |-> "checked", name |-> name, lost |-> FALSE,
                resp |-> @.resp, n |-> @.n + 1]]
    /\ CategoriesUnchanged
    /\ RaceUnchanged

\* create_category from db.add(cat) on: the INSERT meets the unique index,
\* and its IntegrityError leaves the handler uncaught.
create_category_commit(s) ==
    /\ sess[s].pc = "checked"
    /\ nextCategoryId' = nextCategoryId + 1
    /\ IF ~unique_name_ok(sess[s].name)
       THEN /\ sess' = [sess EXCEPT ![s].pc = "done", ![s].lost = TRUE,
                  ![s].resp = HTTPException(500, "Internal Server Error")]
            /\ UNCHANGED <<categories, created>>
       ELSE LET cat == [id |-> nextCategoryId, name |-> sess[s].name]
            IN  /\ categories' = categories \cup {cat}
                /\ created' = created \cup {CategoryOut(cat)}
                /\ sess' = [sess EXCEPT ![s].pc = "done",
                      ![s].resp = Ok(201, CategoryOut(cat))]
    /\ RaceUnchanged

\* The response is sent and get_db closes the session.
create_category_return(s) ==
    /\ sess[s].pc = "done"
    /\ sess' = [sess EXCEPT ![s] = IdleSession(@.n)]
    /\ CategoriesUnchanged
    /\ RaceUnchanged

NextRace ==
    \/ \E s \in Sessions, name \in CategoryNames :
          create_category_check(s, name)
    \/ \E s \in Sessions : create_category_commit(s)
    \/ \E s \in Sessions : create_category_return(s)

SpecRace == Init /\ [][NextRace]_vars

(* ======================== the checked claims =========================== *)

Ids(rows) == { r.id : r \in rows }
Names(rows) == { r.name : r \in rows }
Range(seq) == { seq[i] : i \in 1 .. Len(seq) }
DuplicateName == HTTPException(400, "Category name already exists")
CategoryNotFound == HTTPException(404, "Category not found")
ProductNotFound == HTTPException(404, "Product not found")
InvalidCredentials == HTTPException(401, "Invalid credentials")
NotAdmin == HTTPException(403, "Admin access required")

\* The payload's category_id names a category absent from the tables the
\* request found.
MissingBefore(category_id) ==
    \E i \in category_id : i \notin Ids(pre.categories)

\* C1: a create_category whose name is already in the store (an exact,
\* case-sensitive match) fails with DuplicateName (400) and adds nothing; one
\* whose name is not in the store succeeds and adds exactly one category
\* with a fresh id; and every later read returns that id for that name.
C1_CreateCategory ==
    /\ req.op = "create_category" =>
          IF req.name \in Names(pre.categories)
          THEN resp = DuplicateName /\ categories = pre.categories
          ELSE /\ resp.status = 201
               /\ resp.body.name = req.name
               /\ resp.body.id \notin Ids(pre.categories)
               /\ categories = pre.categories \cup {resp.body}
               /\ Cardinality(categories) = Cardinality(pre.categories) + 1
    /\ \A v \in created :
          /\ category_by_name(v.name) = {v}
          /\ category_by_id(v.id) = {v}
    /\ req.op = "list_categories" =>
          /\ created \subseteq Range(resp.body)
          /\ \A i, j \in 1 .. Len(resp.body) :
                resp.body[i].name = resp.body[j].name => i = j

\* C1's case: both names are stored and a further create of one of them was
\* refused.
C1_Witness ==
    /\ req.op = "create_category"
    /\ resp = DuplicateName
    /\ Names(categories) = CategoryNames

\* C3: a create_product whose non-null category_id matches no category
\* fails with CategoryNotFound and leaves products and categories as they
\* were; and every stored product's category_id is null or the id of a
\* stored category.
C3_CategoryChecked ==
    /\ (req.op = "create_product" /\ MissingBefore(req.payload.category_id))
          => /\ resp = CategoryNotFound
             /\ products = pre.products
             /\ categories = pre.categories
    /\ \A p \in products :
          p.category_id = None \/ p.category_id \subseteq Ids(categories)

\* C3's case: a create_product naming a missing category was refused while
\* a product with a category is stored.
C3_Witness ==
    /\ req.op = "create_product"
    /\ MissingBefore(req.payload.category_id)
    /\ resp = CategoryNotFound
    /\ \E p \in products : p.category_id # None

\* The fields of a product view that a payload sets.
SameFields(view, payload) ==
    /\ view.name = payload.name
    /\ view.price = payload.price
    /\ view.in_stock = payload.in_stock
    /\ view.category_id = payload.category_id

\* C4: update_product on an existing id with a null or existing category_id
\* sets name, price, in_stock and category_id to exactly the payload's
\* values, keeps the id and changes no other product; it fails with
\* ProductNotFound for an unknown id and with CategoryNotFound for a missing
\* category, and then changes nothing.
C4_UpdateReplacesAllFields ==
    req.op = "update_product" =>
        IF req.product_id \notin Ids(pre.products)
        THEN resp = ProductNotFound /\ products = pre.products
        ELSE IF MissingBefore(req.payload.category_id)
        THEN resp = CategoryNotFound /\ products = pre.products
        ELSE /\ resp.status = 200
             /\ \E p \in products :
                   /\ p.id = req.product_id
                   /\ SameFields(ProductOut(p), req.payload)
                   /\ resp.body = ProductOut(p)
             /\ { p \in products : p.id # req.product_id }
                  = { p \in pre.products : p.id # req.product_id }
             /\ Ids(products) = Ids(pre.products)

\* A price on the wire has at most two fractional digits and is not
\* negative.
ValidPrice(price) == price >= 0 /\ price % 10 = 0

\* C7: a create_product or update_product whose price has more than two
\* fractional digits or is negative is rejected and persists nothing; a
\* price with at most two fractional digits is stored and read back as
\* exactly the supplied value.
C7_PricePolicy ==
    /\ (/\ req.op \in {"create_product", "update_product"}
        /\ ~ValidPrice(req.payload.price))
          => resp.status \notin {200, 201} /\ products = pre.products
    /\ (/\ req.op \in {"create_product", "update_product"}
        /\ ValidPrice(req.payload.price)
        /\ resp.status \in {200, 201})
          => /\ resp.body.price = req.payload.price
             /\ \E p \in products :
                   /\ p.id = resp.body.id
                   /\ ProductOut(p).price = req.payload.price

\* C8: list_products_by_category(X) for an existing category X returns
\* exactly the products whose category_id is X, by id descending; a product
\* of another category or of none is not in it.
C8_ListByCategory ==
    (req.op = "list_products_by_category"
        /\ req.category_id \in Ids(categories))
      => /\ resp.status = 200
         /\ Range(resp.body) =
              { ProductOut(p) : p \in
                  { q \in products : q.category_id = Some(req.category_id) } }
         /\ \A i, j \in 1 .. Len(resp.body) :
               i < j => resp.body[i].id > resp.body[j].id
         /\ \A p \in products :
               p.category_id # Some(req.category_id)
                 => p.id \notin Ids(Range(resp.body))

\* C8's case: two products of the listed category are returned while a
\* second category exists.
C8_Witness ==
    /\ req.op = "list_products_by_category"
    /\ resp.status = 200
    /\ Len(resp.body) = 2
    /\ Cardinality(categories) = 2

\* C9: the first delete_product of an existing id answers 204 and removes
\* exactly that product, leaving the other products and the categories;
\* every delete, read and update of that id afterwards fails with
\* ProductNotFound, and no later product is given the id.
C9_DeleteIsPermanent ==
    /\ (req.op = "delete_product" /\ req.product_id \in Ids(pre.products))
          => /\ resp.status = 204
             /\ products = { p \in pre.products : p.id # req.product_id }
             /\ Cardinality(products) = Cardinality(pre.products) - 1
             /\ categories = pre.categories
    /\ (/\ req.op \in {"delete_product", "read_product", "update_product"}
        /\ req.product_id \in pre.deleted)
          => resp = ProductNotFound /\ products = pre.products
    /\ Ids(products) \cap deleted = {}

\* C9's case: a product was deleted, another was created after it, and a
\* second delete of the first id was refused.
C9_Witness ==
    /\ req.op = "delete_product"
    /\ req.product_id \in pre.deleted
    /\ resp = ProductNotFound
    /\ \E p \in products : p.id > req.product_id

\* The failure admin_required reports for a missing or empty header.
MissingHeader == HTTPException(401, "Missing X-Admin-Email header")

\* The claimed email belongs to a user, to an admin.
Registered(x_admin_email) ==
    \E u \in users : Some(u.email) = x_admin_email
IsAdmin(x_admin_email) ==
    \E u \in users : Some(u.email) = x_admin_email /\ u.role = "admin"

\* C2: however two concurrent create_category requests with the same name
\* interleave, the store never holds two categories with that name, and the
\* request that loses the race ends with DuplicateName.
C2_RaceLoserGetsDuplicateName ==
    /\ \A c, d \in categories : c.name = d.name => c = d
    /\ \A s \in Sessions :
          (sess[s].pc = "done" /\ sess[s].lost) => sess[s].resp = DuplicateName

\* What holds of the race: names stay unique in the store, and the loser
\* is answered 500.
C2_RaceAsCoded ==
    /\ \A c, d \in categories : c.name = d.name => c = d
    /\ \A s \in Sessions :
          (sess[s].pc = "done" /\ sess[s].lost)
            => sess[s].resp = HTTPException(500, "Internal Server Error")

\* C5 as claimed: the admin check succeeds only for the email of an admin;
\* it fails with 401 without a header and with 403 for a user who is no
\* admin; and for an email that belongs to no user it reports a failure
\* other than that 403.
C5_UnknownEmailDistinct ==
    req.op = "admin_list_users" =>
        /\ resp.status = 200 => IsAdmin(req.x_admin_email)
        /\ req.x_admin_email = None => resp.status = 401
        /\ (Registered(req.x_admin_email) /\ ~IsAdmin(req.x_admin_email))
              => resp = NotAdmin
        /\ (req.x_admin_email # None /\ ~Registered(req.x_admin_email))
              => resp.status # 200 /\ resp # NotAdmin

\* C5 as amended: the admin check succeeds exactly for the email of an
\* admin; without a header, or with an empty one, it fails with 401; and
\* for a non-empty email that belongs to no user it reports the very
\* failure it reports for a user who is no admin, 403 "Admin access
\* required".
C5_AdminCheck ==
    req.op = "admin_list_users" =>
        /\ resp.status = 200 <=> IsAdmin(req.x_admin_email)
        /\ req.x_admin_email \in {None, Some("")} <=> resp = MissingHeader
        /\ (Registered(req.x_admin_email) /\ ~IsAdmin(req.x_admin_email))
              => resp = NotAdmin
        /\ (req.x_admin_email \notin {None, Some("")}
              /\ ~Registered(req.x_admin_email))
              => resp = NotAdmin

\* C5's case: with a user who is no admin registered, the check was asked
\* about an email that belongs to no user, and answered 403.
C5_Witness ==
    /\ req.op = "admin_list_users"
    /\ req.x_admin_email \notin {None, Some("")}
    /\ ~Registered(req.x_admin_email)
    /\ \E u \in users : u.role = "user"
    /\ resp = NotAdmin

\* C6: login succeeds only if a user with exactly that email exists and the
\* hash of the supplied password is the stored hash; a login with a known
\* email and a wrong password gets the response the same login gets from
\* the store without that email, InvalidCredentials (401); and no login
\* changes the store.
C6_Login ==
    /\ req.op = "login" =>
          /\ resp.status = 200 =>
                \E u \in pre.users :
                    /\ u.email = req.data.email
                    /\ u.password_hash = hash_password(req.data.password)
          /\ resp.status # 200 => resp = InvalidCredentials
          /\ users = pre.users
    /\ \A data \in LoginInputs :
          LET without == { u \in users : u.email # data.email }
          IN  (\E u \in users :
                  /\ u.email = data.email
                  /\ u.password_hash # hash_password(data.password))
                => /\ login_response(users, data) = InvalidCredentials
                   /\ login_response(without, data)
                        = login_response(users, data)

\* C6's case: a login with a registered email and a wrong password was
\* refused.
C6_Witness ==
    /\ req.op = "login"
    /\ \E u \in users :
          /\ u.email = req.data.email
          /\ u.password_hash # hash_password(req.data.password)
    /\ resp = InvalidCredentials

\* C10: every stored role is "user" or "admin"; create_user stores the
\* supplied role when it is one of the two and "user" otherwise, without an
\* error; and no user created with an unrecognised role passes the admin
\* check.
C10_RoleCoerced ==
    /\ \A u \in users : u.role \in {"user", "admin"}
    /\ (req.op = "create_user"
          /\ req.payload.email \notin { u.email : u \in pre.users })
          => /\ resp.status = 201
             /\ resp.body.role =
                  IF req.payload.role \in {"user", "admin"}
                  THEN req.payload.role ELSE "user"
             /\ \E u \in users :
                   /\ UserOut(u) = resp.body
                   /\ u.email = req.payload.email
    /\ \A e \in coerced : admin_required(Some(e)) = NotAdmin

\* C10's case: a user was created with role "superadmin" while an admin is
\* registered.
C10_Witness ==
    /\ req.op = "create_user"
    /\ req.payload.role = "superadmin"
    /\ resp.status = 201
    /\ \E u \in users : u.role = "admin"

====
